---- MODULE Spec2Model ----
(***************************************************************************)
(* Kitchen (src/Kitchen.cpp), a bag of Dish* with two running aggregates,  *)
(* and the dietary accommodations of the three dish variants               *)
(* (src/Appetizer.cpp, src/MainCourse.cpp, src/Dessert.cpp).               *)
(*                                                                         *)
(* ArrayBag.hpp and Dish.hpp are not among the sources.  The bag is        *)
(* modelled as the array `items_` with the live prefix 0..item_count_-1    *)
(* that Kitchen.cpp indexes: add appends while there is room, remove       *)
(* finds the first equal entry and moves the last live entry into its      *)
(* slot.  Entries are Dish pointers, so equality is pointer identity.      *)
(*                                                                         *)
(* A size_t index is represented by its residue: the value SIZE_MAX that   *)
(* `i--` produces from 0 is written -1, and `i++` takes it back to 0.      *)
(***************************************************************************)
EXTENDS Integers, Sequences, FiniteSets, TLC

VARIABLES items_, item_count_, total_prep_time_, count_elaborate_,
          dishes, deleted, status, last

vars == <<items_, item_count_, total_prep_time_, count_elaborate_,
          dishes, deleted, status, last>>

(***************************************************************************)
(* Bounds of the model.                                                    *)
(***************************************************************************)
NumDishes == 3          \* Dish objects (pointers) the caller has created
DEFAULT_CAPACITY == 2   \* capacity of the bag's array
MaxLen == 4             \* longest ingredient list drawn for a single dish
MaxSides == 3           \* longest side-dish list drawn for a single dish
MaxLevel == 4           \* largest spiciness / sweetness level drawn
MaxHeld == 13           \* largest size and elaborate counter a percentage is asked for
MaxRecords == 2         \* records read from the file

Null == 0
DishIds == 1..NumDishes
Slots == 0..(DEFAULT_CAPACITY - 1)

(***************************************************************************)
(* Sequences helpers.  C++ indices are 0-based: v[i] is Seq[i + 1].        *)
(***************************************************************************)
Range(s) == {s[n] : n \in 1..Len(s)}

\* std::vector::erase(begin() + i)
Erase(v, i) == [n \in 1..(Len(v) - 1) |-> IF n <= i THEN v[n] ELSE v[n + 1]]

\* an index that operator[] may be applied to
InRange(i, v) == i >= 0 /\ i < Len(v)

RECURSIVE SeqsUpTo(_, _)
SeqsUpTo(S, n) ==
    IF n = 0 THEN {<<>>}
    ELSE LET shorter == SeqsUpTo(S, n - 1)
         IN  shorter \cup {Append(s, x) : s \in {t \in shorter : Len(t) = n - 1}, x \in S}

(***************************************************************************)
(* Dietary request: six independent flags (Dish::DietaryRequest).          *)
(***************************************************************************)
Requests == [vegetarian : BOOLEAN, vegan : BOOLEAN, gluten_free : BOOLEAN,
             nut_free : BOOLEAN, low_sodium : BOOLEAN, low_sugar : BOOLEAN]

NoRequest == [vegetarian |-> FALSE, vegan |-> FALSE, gluten_free |-> FALSE,
              nut_free |-> FALSE, low_sodium |-> FALSE, low_sugar |-> FALSE]

(***************************************************************************)
(* The fixed ingredient sets, in the order the code lists them.            *)
(***************************************************************************)
nonVegIngredients == <<"Meat", "Chicken", "Fish", "Beef", "Pork", "Lamb", "Shrimp", "Bacon">>
gluten_ingredients == <<"Wheat", "Flour", "Bread", "Pasta", "Barley", "Rye", "Oats", "Crust">>
nuts_ingredients == <<"Almonds", "Walnuts", "Pecans", "Hazelnuts", "Peanuts", "Cashews", "Pistachios">>
diary_egg_ingredients == <<"Milk", "Eggs", "Cheese", "Butter", "Cream", "Yogurt">>
gluten_side_dishes_category == <<"GRAIN", "PASTA", "BREAD", "STARCHES">>

Categories == {"GRAIN", "PASTA", "LEGUME", "BREAD", "SALAD", "SOUP", "STARCHES", "VEGETABLE"}

(***************************************************************************)
(* What an out-of-range vector read does.  It is undefined behaviour: the  *)
(* build either reads bytes that compare unequal and the scan goes on      *)
(* ("nomatch"), or the process faults ("fault": an invalid read, or an     *)
(* erase at the invalid position after a spurious match).                  *)
(***************************************************************************)
UBOutcomes == {"nomatch", "fault"}

(***************************************************************************)
(* The removal loop shared by Appetizer gluten_free, Dessert nut_free,     *)
(* Dessert vegan and MainCourse vegan:                                     *)
(*   for (size_t i = 0; i < v.size(); i++)                                 *)
(*     for (size_t j = 0; j < set.size(); j++)                             *)
(*       if (v[i] == set[j]) { v.erase(v.begin() + i); i--; }              *)
(* The state of the two loops is (v, i, j); after an erase the inner loop  *)
(* goes on with the remaining j at the decremented i.                      *)
(***************************************************************************)
RECURSIVE EraseScan(_, _, _, _, _)
EraseScan(v, set, i, j, ub) ==
    IF j >= Len(set)
    THEN IF i + 1 < Len(v) THEN EraseScan(v, set, i + 1, 0, ub)
                           ELSE [v |-> v, fault |-> FALSE]
    ELSE IF ~InRange(i, v)
    THEN IF ub = "fault" THEN [v |-> v, fault |-> TRUE]
                         ELSE EraseScan(v, set, i, j + 1, ub)
    ELSE IF v[i + 1] = set[j + 1]
    THEN EraseScan(Erase(v, i), set, i - 1, j + 1, ub)
    ELSE EraseScan(v, set, i, j + 1, ub)

\* the loop entered at i = 0 (the outer loop condition is tested first)
RemoveIngredients(v, set, ub) ==
    IF 0 < Len(v) THEN EraseScan(v, set, 0, 0, ub) ELSE [v |-> v, fault |-> FALSE]

(***************************************************************************)
(* The vegetarian substitution loop of Appetizer and MainCourse, with the  *)
(* one counter substitution_count shared by the whole scan.                *)
(***************************************************************************)
RECURSIVE VegScanMutant(_, _, _, _, _)
VegScanMutant(v, i, j, substitution_count, ub) ==
    IF j >= Len(nonVegIngredients)
    THEN IF i + 1 < Len(v) THEN VegScanMutant(v, i + 1, 0, 0, ub)   \* counter reset per ingredient
                           ELSE [v |-> v, fault |-> FALSE]
    ELSE IF ~InRange(i, v)
    THEN IF ub = "fault" THEN [v |-> v, fault |-> TRUE]
                         ELSE VegScanMutant(v, i, j + 1, substitution_count, ub)
    ELSE IF v[i + 1] = nonVegIngredients[j + 1]
    THEN IF substitution_count = 0
         THEN VegScanMutant([v EXCEPT ![i + 1] = "Beans"], i, j + 1, substitution_count + 1, ub)
         ELSE IF substitution_count = 1
         THEN VegScanMutant([v EXCEPT ![i + 1] = "Mushrooms"], i, j + 1, substitution_count + 1, ub)
         ELSE VegScanMutant(Erase(v, i), i - 1, j + 1, substitution_count + 1, ub)
    ELSE VegScanMutant(v, i, j + 1, substitution_count, ub)

RECURSIVE VegScan(_, _, _, _, _)
VegScan(v, i, j, substitution_count, ub) ==
    IF j >= Len(nonVegIngredients)
    THEN IF i + 1 < Len(v) THEN VegScan(v, i + 1, 0, substitution_count, ub)
                           ELSE [v |-> v, fault |-> FALSE]
    ELSE IF ~InRange(i, v)
    THEN IF ub = "fault" THEN [v |-> v, fault |-> TRUE]
                         ELSE VegScan(v, i, j + 1, substitution_count, ub)
    ELSE IF v[i + 1] = nonVegIngredients[j + 1]
    THEN IF substitution_count = 0
         THEN VegScan([v EXCEPT ![i + 1] = "Beans"], i, j + 1, substitution_count + 1, ub)
         ELSE IF substitution_count = 1
         THEN VegScan([v EXCEPT ![i + 1] = "Mushrooms"], i, j + 1, substitution_count + 1, ub)
         ELSE VegScan(Erase(v, i), i - 1, j + 1, substitution_count + 1, ub)
    ELSE VegScan(v, i, j + 1, substitution_count, ub)

SubstituteIngredients(v, ub) ==
    IF 0 < Len(v) THEN VegScan(v, 0, 0, 0, ub) ELSE [v |-> v, fault |-> FALSE]

(***************************************************************************)
(* The side-dish loop of MainCourse gluten_free: the same two loops over   *)
(* side_dishes, comparing side_dishes[i].category.                         *)
(***************************************************************************)
RECURSIVE SideDishScan(_, _, _, _)
SideDishScan(v, i, j, ub) ==
    IF j >= Len(gluten_side_dishes_category)
    THEN IF i + 1 < Len(v) THEN SideDishScan(v, i + 1, 0, ub)
                           ELSE [v |-> v, fault |-> FALSE]
    ELSE IF ~InRange(i, v)
    THEN IF ub = "fault" THEN [v |-> v, fault |-> TRUE]
                         ELSE SideDishScan(v, i, j + 1, ub)
    ELSE IF v[i + 1].category = gluten_side_dishes_category[j + 1]
    THEN SideDishScan(Erase(v, i), i - 1, j + 1, ub)
    ELSE SideDishScan(v, i, j + 1, ub)

RemoveSideDishes(v, ub) ==
    IF 0 < Len(v) THEN SideDishScan(v, 0, 0, ub) ELSE [v |-> v, fault |-> FALSE]

(***************************************************************************)
(* dietaryAccommodations of the three variants.  Each handler runs on the  *)
(* dish left by the one before it; a fault ends the call.                  *)
(***************************************************************************)
Appetizer_vegetarian(dish, ub) ==
    LET r == SubstituteIngredients(dish.ingredients, ub)
    IN  [dish |-> [dish EXCEPT !.vegetarian = TRUE, !.ingredients = r.v], fault |-> r.fault]

\* low_sodium without the clamp at 0
Appetizer_low_sodiumMutant(dish) ==
    [dish |-> [dish EXCEPT !.spiciness_level = dish.spiciness_level - 2], fault |-> FALSE]

Appetizer_low_sodium(dish) ==
    LET level == dish.spiciness_level - 2
    IN  [dish |-> [dish EXCEPT !.spiciness_level = IF level < 0 THEN 0 ELSE level],
         fault |-> FALSE]

Appetizer_gluten_free(dish, ub) ==
    LET r == RemoveIngredients(dish.ingredients, gluten_ingredients, ub)
    IN  [dish |-> [dish EXCEPT !.ingredients = r.v], fault |-> r.fault]

\* the level reduction answering to low_sugar as well
Appetizer_dietaryAccommodationsMutant(dish, request, ub) ==
    LET r0 == [dish |-> dish, fault |-> FALSE]
        r1 == IF r0.fault \/ ~request.vegetarian THEN r0 ELSE Appetizer_vegetarian(r0.dish, ub)
        r2 == IF r1.fault \/ ~(request.low_sodium \/ request.low_sugar)
              THEN r1 ELSE Appetizer_low_sodium(r1.dish)
    IN  IF r2.fault \/ ~request.gluten_free THEN r2 ELSE Appetizer_gluten_free(r2.dish, ub)

Appetizer_dietaryAccommodations(dish, request, ub) ==
    LET r0 == [dish |-> dish, fault |-> FALSE]
        r1 == IF r0.fault \/ ~request.vegetarian THEN r0 ELSE Appetizer_vegetarian(r0.dish, ub)
        r2 == IF r1.fault \/ ~request.low_sodium THEN r1 ELSE Appetizer_low_sodium(r1.dish)
    IN  IF r2.fault \/ ~request.gluten_free THEN r2 ELSE Appetizer_gluten_free(r2.dish, ub)

MainCourse_vegetarian(dish, ub) ==
    LET r == SubstituteIngredients(dish.ingredients, ub)
    IN  [dish |-> [dish EXCEPT !.protein_type = "Tofu", !.ingredients = r.v], fault |-> r.fault]

MainCourse_vegan(dish, ub) ==
    LET r == RemoveIngredients(dish.ingredients, diary_egg_ingredients, ub)
    IN  [dish |-> [dish EXCEPT !.protein_type = "Tofu", !.ingredients = r.v], fault |-> r.fault]

MainCourse_gluten_free(dish, ub) ==
    LET r == RemoveSideDishes(dish.side_dishes, ub)
    IN  [dish |-> [dish EXCEPT !.gluten_free = TRUE, !.side_dishes = r.v], fault |-> r.fault]

MainCourse_dietaryAccommodations(dish, request, ub) ==
    LET r0 == [dish |-> dish, fault |-> FALSE]
        r1 == IF r0.fault \/ ~request.vegetarian THEN r0 ELSE MainCourse_vegetarian(r0.dish, ub)
        r2 == IF r1.fault \/ ~request.vegan THEN r1 ELSE MainCourse_vegan(r1.dish, ub)
    IN  IF r2.fault \/ ~request.gluten_free THEN r2 ELSE MainCourse_gluten_free(r2.dish, ub)

Dessert_nut_free(dish, ub) ==
    LET r == RemoveIngredients(dish.ingredients, nuts_ingredients, ub)
    IN  [dish |-> [dish EXCEPT !.contains_nuts = FALSE, !.ingredients = r.v], fault |-> r.fault]

Dessert_low_sugar(dish) ==
    LET level == dish.sweetness_level - 3
    IN  [dish |-> [dish EXCEPT !.sweetness_level = IF level < 0 THEN 0 ELSE level],
         fault |-> FALSE]

Dessert_vegan(dish, ub) ==
    LET r == RemoveIngredients(dish.ingredients, diary_egg_ingredients, ub)
    IN  [dish |-> [dish EXCEPT !.ingredients = r.v], fault |-> r.fault]

\* the enumerators of Dessert::FlavorProfile in their declared order
FlavorOrdinal(flavor_profile) ==
    IF flavor_profile = "SWEET" THEN 0
    ELSE IF flavor_profile = "BITTER" THEN 1
    ELSE IF flavor_profile = "SOUR" THEN 2
    ELSE IF flavor_profile = "SALTY" THEN 3
    ELSE 4

\* Dessert::display: the labels written after "Flavor Profile: ", one per
\* if statement whose condition holds
Dessert_display(dish) ==
    LET flavor_profile_ == FlavorOrdinal(dish.flavor_profile)
    IN  (IF flavor_profile_ = 0 THEN <<"Sweet">> ELSE <<>>)
        \o (IF flavor_profile_ = 1 THEN <<"Bitter">> ELSE <<>>)
        \o (IF flavor_profile_ = 2 THEN <<"Sour">> ELSE <<>>)
        \o (IF flavor_profile_ = 2 THEN <<"Salty">> ELSE <<>>)
        \o (IF flavor_profile_ = 3 THEN <<"Umami">> ELSE <<>>)

Dessert_dietaryAccommodations(dish, request, ub) ==
    LET r0 == [dish |-> dish, fault |-> FALSE]
        r1 == IF r0.fault \/ ~request.nut_free THEN r0 ELSE Dessert_nut_free(r0.dish, ub)
        r2 == IF r1.fault \/ ~request.low_sugar THEN r1 ELSE Dessert_low_sugar(r1.dish)
    IN  IF r2.fault \/ ~request.vegan THEN r2 ELSE Dessert_vegan(r2.dish, ub)

\* the virtual call items_[i]->dietaryAccommodations(request)
dietaryAccommodations(dish, request, ub) ==
    IF dish.type = "APPETIZER" THEN Appetizer_dietaryAccommodations(dish, request, ub)
    ELSE IF dish.type = "MAINCOURSE" THEN MainCourse_dietaryAccommodations(dish, request, ub)
    ELSE Dessert_dietaryAccommodations(dish, request, ub)

(***************************************************************************)
(* Dish objects.  One record shape for the three variants; a field that a  *)
(* variant does not have keeps the value of BaseDish.  price is in cents.  *)
(***************************************************************************)
BaseDish ==
    [type |-> "", name |-> "", ingredients |-> <<>>, prep_time |-> 0, price |-> 0,
     cuisine_type |-> "OTHER",
     serving_style |-> "PLATED", spiciness_level |-> 0, vegetarian |-> FALSE,
     cooking_method |-> "GRILLED", protein_type |-> "", side_dishes |-> <<>>,
     gluten_free |-> FALSE,
     flavor_profile |-> "SWEET", sweetness_level |-> 0, contains_nuts |-> FALSE]

Appetizer(name, ingredients, prep_time, price, cuisine_type, serving_style, spiciness_level, vegetarian) ==
    [BaseDish EXCEPT !.type = "APPETIZER", !.name = name, !.ingredients = ingredients,
                     !.prep_time = prep_time, !.price = price, !.cuisine_type = cuisine_type,
                     !.serving_style = serving_style, !.spiciness_level = spiciness_level,
                     !.vegetarian = vegetarian]

MainCourse(name, ingredients, prep_time, price, cuisine_type, cooking_method, protein_type, side_dishes, gluten_free) ==
    [BaseDish EXCEPT !.type = "MAINCOURSE", !.name = name, !.ingredients = ingredients,
                     !.prep_time = prep_time, !.price = price, !.cuisine_type = cuisine_type,
                     !.cooking_method = cooking_method, !.protein_type = protein_type,
                     !.side_dishes = side_dishes, !.gluten_free = gluten_free]

Dessert(name, ingredients, prep_time, price, cuisine_type, flavor_profile, sweetness_level, contains_nuts) ==
    [BaseDish EXCEPT !.type = "DESSERT", !.name = name, !.ingredients = ingredients,
                     !.prep_time = prep_time, !.price = price, !.cuisine_type = cuisine_type,
                     !.flavor_profile = flavor_profile, !.sweetness_level = sweetness_level,
                     !.contains_nuts = contains_nuts]

SideDish(name, category) == [name |-> name, category |-> category]

\* the elaborate test written out in newOrder and in serveDish
isElaborate(dish) == Len(dish.ingredients) >= 5 /\ dish.prep_time >= 60

(***************************************************************************)
(* The dishes the caller creates and hands to the kitchen, by pointer.     *)
(* Pointers 1, 2, 3 are an elaborate appetizer whose first ingredient      *)
(* gluten_free removes, an elaborate main course whose last ingredient     *)
(* vegan removes, and a dessert no request changes; further pointers       *)
(* repeat the three.                                                       *)
(***************************************************************************)
Catalog(d) ==
    LET n == (d - 1) % 3
    IN  IF n = 0
        THEN Appetizer("Bruschetta", <<"Bread", "Tomato", "Basil", "Garlic", "Oil">>,
                       60, 850, "ITALIAN", "PLATED", 0, TRUE)
        ELSE IF n = 1
        THEN MainCourse("Risotto", <<"Rice", "Onion", "Stock", "Wine", "Cheese">>,
                        90, 1800, "ITALIAN", "BOILED", "Tofu",
                        <<SideDish("Greens", "SALAD")>>, TRUE)
        ELSE Dessert("Sorbet", <<"Lemon", "Sugar">>, 45, 700, "FRENCH", "SOUR", 0, FALSE)

\* the requests, thresholds and cuisine tokens passed to the kitchen
KitchenRequests ==
    {NoRequest, [NoRequest EXCEPT !.gluten_free = TRUE], [NoRequest EXCEPT !.vegan = TRUE]}
Thresholds == {50, 70, 100}
CuisineTokens == {"ITALIAN", "FRENCH", "VEGAN"}

(***************************************************************************)
(* ArrayBag<Dish*>, the base class of Kitchen.  k is the object: the array *)
(* items_, item_count_ and Kitchen's two aggregates.                       *)
(***************************************************************************)
getCurrentSize(k) == k.item_count_

getIndexOf(k, entry) ==
    LET found == {i \in 0..(k.item_count_ - 1) : k.items_[i] = entry}
    IN  IF found = {} THEN -1 ELSE CHOOSE i \in found : \A j \in found : i <= j

add(k, new_entry) ==
    IF k.item_count_ < DEFAULT_CAPACITY
    THEN [k |-> [k EXCEPT !.items_[k.item_count_] = new_entry, !.item_count_ = @ + 1],
          ret |-> TRUE]
    ELSE [k |-> k, ret |-> FALSE]

remove(k, an_entry) ==
    LET found_index == getIndexOf(k, an_entry)
        can_remove == k.item_count_ # 0 /\ found_index > -1
    IN  IF can_remove
        THEN [k |-> [k EXCEPT !.item_count_ = @ - 1,
                              !.items_[found_index] = k.items_[k.item_count_ - 1]],
              ret |-> TRUE]
        ELSE [k |-> k, ret |-> FALSE]

(***************************************************************************)
(* Kitchen.  h is the heap: the Dish object behind every pointer.          *)
(***************************************************************************)
\* newOrder counting a dish as elaborate only above 5 ingredients
newOrderMutant(k, h, new_dish) ==
    LET a == add(k, new_dish)
    IN  IF a.ret
        THEN [k |-> [a.k EXCEPT !.total_prep_time_ = @ + h[new_dish].prep_time,
                                !.count_elaborate_ =
                                    IF Len(h[new_dish].ingredients) > 5 /\ h[new_dish].prep_time >= 60
                                    THEN @ + 1 ELSE @],
              ret |-> TRUE]
        ELSE [k |-> k, ret |-> FALSE]

newOrder(k, h, new_dish) ==
    LET a == add(k, new_dish)
    IN  IF a.ret
        THEN [k |-> [a.k EXCEPT !.total_prep_time_ = @ + h[new_dish].prep_time,
                                !.count_elaborate_ =
                                    IF isElaborate(h[new_dish]) THEN @ + 1 ELSE @],
              ret |-> TRUE]
        ELSE [k |-> k, ret |-> FALSE]

\* serveDish subtracting the prep time only inside the elaborate branch
serveDishBraceMutant(k, h, dish_to_remove) ==
    IF getCurrentSize(k) = 0
    THEN [k |-> k, ret |-> FALSE]
    ELSE LET r == remove(k, dish_to_remove)
         IN  IF r.ret
             THEN [k |-> IF isElaborate(h[dish_to_remove])
                         THEN [r.k EXCEPT !.total_prep_time_ = @ - h[dish_to_remove].prep_time,
                                          !.count_elaborate_ = @ - 1]
                         ELSE r.k,
                   ret |-> TRUE]
             ELSE [k |-> k, ret |-> FALSE]

\* serveDish updating the aggregates before it knows that remove succeeded
serveDishMutant(k, h, dish_to_remove) ==
    IF getCurrentSize(k) = 0
    THEN [k |-> k, ret |-> FALSE]
    ELSE LET r == remove(k, dish_to_remove)
         IN  [k |-> [r.k EXCEPT !.total_prep_time_ = @ - h[dish_to_remove].prep_time,
                                 !.count_elaborate_ =
                                     IF isElaborate(h[dish_to_remove]) THEN @ - 1 ELSE @],
              ret |-> r.ret]

serveDish(k, h, dish_to_remove) ==
    IF getCurrentSize(k) = 0
    THEN [k |-> k, ret |-> FALSE]
    ELSE LET r == remove(k, dish_to_remove)
         IN  IF r.ret
             THEN [k |-> [r.k EXCEPT !.total_prep_time_ = @ - h[dish_to_remove].prep_time,
                                     !.count_elaborate_ =
                                         IF isElaborate(h[dish_to_remove]) THEN @ - 1 ELSE @],
                   ret |-> TRUE]
             ELSE [k |-> k, ret |-> FALSE]

getPrepTimeSum(k) == IF getCurrentSize(k) = 0 THEN 0 ELSE k.total_prep_time_

\* elaborateDishCount without the test of the size
elaborateDishCountMutant(k) == k.count_elaborate_

elaborateDishCount(k) ==
    IF getCurrentSize(k) = 0 \/ k.count_elaborate_ = 0 THEN 0 ELSE k.count_elaborate_

\* round(x) of <cmath> for the quotient x = num / den of two non-negative
\* numbers: the nearest integer, a half rounded away from zero.  For every
\* count and size up to 400 and every sum up to 4000 the double arithmetic of
\* the code gives exactly this integer.
round(num, den) == (2 * num + den) \div (2 * den)

\* for (int i = 0; i < getCurrentSize(); i++) total_prep_time_ += ...
RECURSIVE AvgPrepTimeLoop(_, _, _, _)
AvgPrepTimeLoop(k, h, i, total) ==
    IF ~(i < getCurrentSize(k)) THEN total
    ELSE AvgPrepTimeLoop(k, h, i + 1, total + h[k.items_[i]].prep_time)

\* the average taken by integer division
calculateAvgPrepTimeMutant(k, h) ==
    IF getCurrentSize(k) = 0 THEN 0
    ELSE AvgPrepTimeLoop(k, h, 0, 0) \div getCurrentSize(k)

calculateAvgPrepTime(k, h) ==
    IF getCurrentSize(k) = 0 THEN 0
    ELSE round(AvgPrepTimeLoop(k, h, 0, 0), getCurrentSize(k))

\* the percentage rounded to one decimal place only
calculateElaboratePercentageMutant(k) ==
    IF getCurrentSize(k) = 0 \/ k.count_elaborate_ = 0 THEN 0
    ELSE 10 * round(k.count_elaborate_ * 1000, getCurrentSize(k))

\* the double returned is given in hundredths of a percent: 5385 is 53.85
calculateElaboratePercentage(k) ==
    IF getCurrentSize(k) = 0 \/ k.count_elaborate_ = 0 THEN 0
    ELSE round(k.count_elaborate_ * 10000, getCurrentSize(k))

\* the tally running over the whole array
RECURSIVE TallyLoopMutant(_, _, _, _, _)
TallyLoopMutant(k, h, cuisine_type, i, count) ==
    IF ~(i < DEFAULT_CAPACITY) THEN count
    ELSE IF k.items_[i] # Null /\ h[k.items_[i]].cuisine_type = cuisine_type
         THEN TallyLoopMutant(k, h, cuisine_type, i + 1, count + 1)
         ELSE TallyLoopMutant(k, h, cuisine_type, i + 1, count)

RECURSIVE TallyLoop(_, _, _, _, _)
TallyLoop(k, h, cuisine_type, i, count) ==
    IF ~(i < getCurrentSize(k)) THEN count
    ELSE IF h[k.items_[i]].cuisine_type = cuisine_type
         THEN TallyLoop(k, h, cuisine_type, i + 1, count + 1)
         ELSE TallyLoop(k, h, cuisine_type, i + 1, count)

tallyCuisineTypes(k, h, cuisine_type) == TallyLoop(k, h, cuisine_type, 0, 0)

\* for (int i = 0; i < num; i++) with num = getCurrentSize() read once
RECURSIVE ReleaseBelowLoop(_, _, _, _, _, _)
ReleaseBelowLoop(k, h, prep_time, i, num, count) ==
    IF ~(i < num)
    THEN [k |-> k, ret |-> count]
    ELSE IF h[k.items_[i]].prep_time < prep_time
         THEN ReleaseBelowLoop(serveDish(k, h, k.items_[i]).k, h, prep_time, i + 1, num, count + 1)
         ELSE ReleaseBelowLoop(k, h, prep_time, i + 1, num, count)

\* the slots the loop reads, each with the size of the bag at that moment
RECURSIVE ReleaseBelowReads(_, _, _, _, _)
ReleaseBelowReads(k, h, prep_time, i, num) ==
    IF ~(i < num)
    THEN <<>>
    ELSE <<[slot |-> i, size |-> getCurrentSize(k)]>>
         \o (IF h[k.items_[i]].prep_time < prep_time
             THEN ReleaseBelowReads(serveDish(k, h, k.items_[i]).k, h, prep_time, i + 1, num)
             ELSE ReleaseBelowReads(k, h, prep_time, i + 1, num))

\* the loop bounded by the current size, as in releaseDishesOfCuisineType
RECURSIVE ReleaseBelowLiveLoop(_, _, _, _, _)
ReleaseBelowLiveLoop(k, h, prep_time, i, count) ==
    IF ~(i < getCurrentSize(k))
    THEN [k |-> k, ret |-> count]
    ELSE IF h[k.items_[i]].prep_time < prep_time
         THEN ReleaseBelowLiveLoop(serveDish(k, h, k.items_[i]).k, h, prep_time, i + 1, count + 1)
         ELSE ReleaseBelowLiveLoop(k, h, prep_time, i + 1, count)

releaseDishesBelowPrepTimeMutant(k, h, prep_time) ==
    ReleaseBelowLiveLoop(k, h, prep_time, 0, 0)

releaseDishesBelowPrepTime(k, h, prep_time) ==
    ReleaseBelowLoop(k, h, prep_time, 0, getCurrentSize(k), 0)

\* for (int i = 0; i < getCurrentSize(); i++)
RECURSIVE ReleaseCuisineLoop(_, _, _, _, _)
ReleaseCuisineLoop(k, h, cuisine_type, i, count) ==
    IF ~(i < getCurrentSize(k))
    THEN [k |-> k, ret |-> count]
    ELSE IF h[k.items_[i]].cuisine_type = cuisine_type
         THEN ReleaseCuisineLoop(serveDish(k, h, k.items_[i]).k, h, cuisine_type, i + 1, count + 1)
         ELSE ReleaseCuisineLoop(k, h, cuisine_type, i + 1, count)

releaseDishesOfCuisineType(k, h, cuisine_type) ==
    ReleaseCuisineLoop(k, h, cuisine_type, 0, 0)

\* a fault ends the process; the heap is returned as the loop left it
RECURSIVE AdjustLoop(_, _, _, _, _)
AdjustLoop(k, h, request, i, ub) ==
    IF ~(i < getCurrentSize(k))
    THEN [h |-> h, fault |-> FALSE]
    ELSE LET r == dietaryAccommodations(h[k.items_[i]], request, ub)
         IN  IF r.fault
             THEN [h |-> h, fault |-> TRUE]
             ELSE AdjustLoop(k, [h EXCEPT ![k.items_[i]] = r.dish], request, i + 1, ub)

dietaryAdjustment(k, h, request, ub) == AdjustLoop(k, h, request, 0, ub)

\* ~Kitchen: delete items_[i] for every live slot; del counts the deletes of each object
RECURSIVE DestructorLoop(_, _, _)
DestructorLoop(k, del, i) ==
    IF ~(i < getCurrentSize(k))
    THEN del
    ELSE DestructorLoop(k, [del EXCEPT ![k.items_[i]] = @ + 1], i + 1)

(***************************************************************************)
(* Ingestion: Kitchen::Kitchen(const std::string& filename).  A record is  *)
(* one line already cut at the commas, its attribute block at the          *)
(* semicolons and its lists at their delimiters; every field is still      *)
(* text.  A numeric text is a sequence of characters.  The texts of the    *)
(* model hold no exponent, hexadecimal, inf or nan form and fit an int.    *)
(***************************************************************************)
DigitValue ==
    [c \in {"0", "1", "2", "3", "4", "5", "6", "7", "8", "9"} |->
        IF c = "0" THEN 0 ELSE IF c = "1" THEN 1 ELSE IF c = "2" THEN 2
        ELSE IF c = "3" THEN 3 ELSE IF c = "4" THEN 4 ELSE IF c = "5" THEN 5
        ELSE IF c = "6" THEN 6 ELSE IF c = "7" THEN 7 ELSE IF c = "8" THEN 8 ELSE 9]

IsDigit(c) == c \in DOMAIN DigitValue

\* the text without its leading white space
RECURSIVE SkipSpace(_)
SkipSpace(text) ==
    IF text # <<>> /\ Head(text) = " " THEN SkipSpace(Tail(text)) ELSE text

\* the longest prefix of digits: how many, and their value
RECURSIVE ReadDigits(_, _, _)
ReadDigits(text, n, value) ==
    IF text # <<>> /\ IsDigit(Head(text))
    THEN ReadDigits(Tail(text), n + 1, 10 * value + DigitValue[Head(text)])
    ELSE [n |-> n, value |-> value, rest |-> text]

\* std::stoi: white space, an optional sign, then digits up to the first
\* other character; std::invalid_argument when there is no digit
stoi(text) ==
    LET t == SkipSpace(text)
        signed == t # <<>> /\ Head(t) \in {"-", "+"}
        d == ReadDigits(IF signed THEN Tail(t) ELSE t, 0, 0)
    IN  IF d.n = 0 THEN [ok |-> FALSE, value |-> 0]
        ELSE [ok |-> TRUE, value |-> IF signed /\ Head(t) = "-" THEN 0 - d.value ELSE d.value]

\* two digits of a fraction, in hundredths
Hundredths(text) ==
    LET d1 == IF Len(text) >= 1 /\ IsDigit(text[1]) THEN DigitValue[text[1]] ELSE 0
        d2 == IF Len(text) >= 2 /\ IsDigit(text[1]) /\ IsDigit(text[2]) THEN DigitValue[text[2]] ELSE 0
    IN  10 * d1 + d2

\* std::stod: white space, an optional sign, digits with an optional point
\* and fraction, up to the first other character; std::invalid_argument when
\* there is no digit.  The double is given in hundredths.
stod(text) ==
    LET t == SkipSpace(text)
        signed == t # <<>> /\ Head(t) \in {"-", "+"}
        whole == ReadDigits(IF signed THEN Tail(t) ELSE t, 0, 0)
        point == whole.rest # <<>> /\ Head(whole.rest) = "."
        frac == IF point THEN ReadDigits(Tail(whole.rest), 0, 0) ELSE [n |-> 0, value |-> 0, rest |-> <<>>]
        cents == 100 * whole.value + (IF point THEN Hundredths(Tail(whole.rest)) ELSE 0)
    IN  IF whole.n + frac.n = 0 THEN [ok |-> FALSE, value |-> 0]
        ELSE [ok |-> TRUE, value |-> IF signed /\ Head(t) = "-" THEN 0 - cents ELSE cents]

\* cuisine decoding falling back to the first enumerator
ParseCuisineTypeMutant(token) ==
    IF token \in {"ITALIAN", "MEXICAN", "CHINESE", "INDIAN", "AMERICAN", "FRENCH", "OTHER"}
    THEN token ELSE "ITALIAN"

\* the if / else if chain over the cuisine names, written once per variant
ParseCuisineType(token) ==
    IF token = "ITALIAN" THEN "ITALIAN"
    ELSE IF token = "MEXICAN" THEN "MEXICAN"
    ELSE IF token = "CHINESE" THEN "CHINESE"
    ELSE IF token = "INDIAN" THEN "INDIAN"
    ELSE IF token = "AMERICAN" THEN "AMERICAN"
    ELSE IF token = "FRENCH" THEN "FRENCH"
    ELSE "OTHER"

ParseServingStyle(token) ==
    IF token = "PLATED" THEN "PLATED"
    ELSE IF token = "FAMILY_STYLE" THEN "FAMILY_STYLE"
    ELSE IF token = "BUFFET" THEN "BUFFET"
    ELSE "PLATED"

ParseCookingMethod(token) ==
    IF token = "GRILLED" THEN "GRILLED"
    ELSE IF token = "BAKED" THEN "BAKED"
    ELSE IF token = "BOILED" THEN "BOILED"
    ELSE IF token = "FRIED" THEN "FRIED"
    ELSE IF token = "STEAMED" THEN "STEAMED"
    ELSE IF token = "RAW" THEN "RAW"
    ELSE "GRILLED"

ParseFlavorProfile(token) ==
    IF token = "SWEET" THEN "SWEET"
    ELSE IF token = "BITTER" THEN "BITTER"
    ELSE IF token = "SOUR" THEN "SOUR"
    ELSE IF token = "SALTY" THEN "SALTY"
    ELSE IF token = "UMAMI" THEN "UMAMI"
    ELSE "SWEET"

ParseCategory(token) ==
    IF token = "GRAIN" THEN "GRAIN"
    ELSE IF token = "PASTA" THEN "PASTA"
    ELSE IF token = "LEGUME" THEN "LEGUME"
    ELSE IF token = "BREAD" THEN "BREAD"
    ELSE IF token = "SALAD" THEN "SALAD"
    ELSE IF token = "SOUP" THEN "SOUP"
    ELSE IF token = "STARCHES" THEN "STARCHES"
    ELSE IF token = "VEGETABLE" THEN "VEGETABLE"
    ELSE "GRAIN"

\* while (getline(side_dish_ss, side_dishes, '|')): entries <<name, category>>
ParseSideDishes(entries) ==
    [n \in 1..Len(entries) |-> SideDish(entries[n][1], ParseCategory(entries[n][2]))]

\* what one pass of the loop body makes of a record: an exception, no dish
\* (dish stays nullptr) or a new dish
Thrown == [thrown |-> TRUE, made |-> FALSE, dish |-> BaseDish]
NoDish == [thrown |-> FALSE, made |-> FALSE, dish |-> BaseDish]
Made(dish) == [thrown |-> FALSE, made |-> TRUE, dish |-> dish]

MakeAppetizer(rec, _prep_time_, _price_) ==
    LET _serving_style_ == rec.attributes[1]
        _spiciness_level_ == stoi(rec.attributes[2])
        _vegetarian_ == (rec.attributes[3] = "true")
    IN  IF ~_spiciness_level_.ok THEN Thrown
        ELSE Made(Appetizer(rec.name, rec.ingredients, _prep_time_, _price_,
                            ParseCuisineType(rec.cuisine_type),
                            ParseServingStyle(_serving_style_),
                            _spiciness_level_.value, _vegetarian_))

MakeMainCourse(rec, _prep_time_, _price_) ==
    LET _cooking_method_ == rec.attributes[1]
        _protein_type_ == rec.attributes[2]
        _side_dishes_ == rec.attributes[3]
        _gluten_free_ == (rec.attributes[4] = "true")
    IN  Made(MainCourse(rec.name, rec.ingredients, _prep_time_, _price_,
                        ParseCuisineType(rec.cuisine_type),
                        ParseCookingMethod(_cooking_method_), _protein_type_,
                        ParseSideDishes(_side_dishes_), _gluten_free_))

MakeDessert(rec, _prep_time_, _price_) ==
    LET _flavor_profile_ == rec.attributes[1]
        _sweetness_level_ == stoi(rec.attributes[2])
        _contains_nuts_ == (rec.attributes[3] = "true")
    IN  IF ~_sweetness_level_.ok THEN Thrown
        ELSE Made(Dessert(rec.name, rec.ingredients, _prep_time_, _price_,
                          ParseCuisineType(rec.cuisine_type),
                          ParseFlavorProfile(_flavor_profile_),
                          _sweetness_level_.value, _contains_nuts_))

\* the chain over the dish type ending in a plain else
MakeDishMutant(rec, _prep_time_, _price_) ==
    IF rec.dish_type = "APPETIZER" THEN MakeAppetizer(rec, _prep_time_, _price_)
    ELSE IF rec.dish_type = "MAINCOURSE" THEN MakeMainCourse(rec, _prep_time_, _price_)
    ELSE MakeDessert(rec, _prep_time_, _price_)

MakeDish(rec, _prep_time_, _price_) ==
    IF rec.dish_type = "APPETIZER" THEN MakeAppetizer(rec, _prep_time_, _price_)
    ELSE IF rec.dish_type = "MAINCOURSE" THEN MakeMainCourse(rec, _prep_time_, _price_)
    ELSE IF rec.dish_type = "DESSERT" THEN MakeDessert(rec, _prep_time_, _price_)
    ELSE NoDish

\* prep_time and price are converted before the dish type is looked at
ParseRecord(rec) ==
    LET _prep_time_ == stoi(rec.prep_time)
    IN  IF ~_prep_time_.ok THEN Thrown
        ELSE LET _price_ == stod(rec.price)
             IN  IF ~_price_.ok THEN Thrown
                 ELSE MakeDish(rec, _prep_time_.value, _price_.value)

(***************************************************************************)
(* The state machine.                                                      *)
(***************************************************************************)
Kit == [items_ |-> items_, item_count_ |-> item_count_,
        total_prep_time_ |-> total_prep_time_, count_elaborate_ |-> count_elaborate_]

SetKit(k) ==
    /\ items_' = k.items_
    /\ item_count_' = k.item_count_
    /\ total_prep_time_' = k.total_prep_time_
    /\ count_elaborate_' = k.count_elaborate_

KitUnchanged == UNCHANGED <<items_, item_count_, total_prep_time_, count_elaborate_>>

\* the operation performed last: its name, its bool or int result, its
\* arguments, and for a dietary call the request and (for a call on one Dish)
\* the dish before it
Call(op, ok, count) ==
    [op |-> op, ok |-> ok, count |-> count, dish |-> Null, args |-> <<>>,
     request |-> NoRequest, pre |-> BaseDish]

\* Kitchen::Kitchen() and the Dish objects of the caller
Init ==
    /\ items_ = [s \in Slots |-> Null]
    /\ item_count_ = 0
    /\ total_prep_time_ = 0
    /\ count_elaborate_ = 0
    /\ dishes = [d \in DishIds |-> Catalog(d)]
    /\ deleted = [d \in DishIds |-> 0]
    /\ status = "running"
    /\ last = Call("Kitchen", TRUE, 0)

NewOrder(d) ==
    /\ status = "running"
    /\ LET r == newOrder(Kit, dishes, d)
       IN  /\ SetKit(r.k)
           /\ last' = [Call("newOrder", r.ret, 0) EXCEPT !.dish = d]
    /\ UNCHANGED <<dishes, deleted, status>>

ServeDish(d) ==
    /\ status = "running"
    /\ LET r == serveDish(Kit, dishes, d)
       IN  /\ SetKit(r.k)
           /\ last' = [Call("serveDish", r.ret, 0) EXCEPT !.dish = d]
    /\ UNCHANGED <<dishes, deleted, status>>

ReleaseDishesBelowPrepTime(t) ==
    /\ status = "running"
    /\ LET r == releaseDishesBelowPrepTime(Kit, dishes, t)
       IN  /\ SetKit(r.k)
           /\ last' = Call("releaseDishesBelowPrepTime", TRUE, r.ret)
    /\ UNCHANGED <<dishes, deleted, status>>

ReleaseDishesOfCuisineType(c) ==
    /\ status = "running"
    /\ LET r == releaseDishesOfCuisineType(Kit, dishes, c)
       IN  /\ SetKit(r.k)
           /\ last' = Call("releaseDishesOfCuisineType", TRUE, r.ret)
    /\ UNCHANGED <<dishes, deleted, status>>

DietaryAdjustment(request, ub) ==
    /\ status = "running"
    /\ LET r == dietaryAdjustment(Kit, dishes, request, ub)
       IN  /\ dishes' = r.h
           /\ status' = IF r.fault THEN "faulted" ELSE "running"
    /\ last' = [Call("dietaryAdjustment", TRUE, 0) EXCEPT !.request = request]
    /\ KitUnchanged
    /\ UNCHANGED deleted

\* a second delete of the same object is undefined: the process ends or faults
Destroy(ub) ==
    /\ status = "running"
    /\ LET del == DestructorLoop(Kit, deleted, 0)
       IN  /\ deleted' = del
           /\ status' = IF ub = "fault" /\ \E d \in DishIds : del[d] > 1
                        THEN "faulted" ELSE "destroyed"
    /\ last' = Call("~Kitchen", TRUE, 0)
    /\ KitUnchanged
    /\ UNCHANGED dishes

\* dish->dietaryAccommodations(request) called on one Dish object
DietaryAccommodations(d, request, ub) ==
    /\ status = "running"
    /\ LET r == dietaryAccommodations(dishes[d], request, ub)
       IN  /\ dishes' = [dishes EXCEPT ![d] = IF r.fault THEN @ ELSE r.dish]
           /\ status' = IF r.fault THEN "faulted" ELSE "running"
    /\ last' = [Call("dietaryAccommodations", TRUE, 0) EXCEPT !.request = request,
                                                              !.pre = dishes[d]]
    /\ KitUnchanged
    /\ UNCHANGED deleted

Next ==
    \/ \E d \in DishIds : NewOrder(d)
    \/ \E d \in DishIds : ServeDish(d)
    \/ \E t \in Thresholds : ReleaseDishesBelowPrepTime(t)
    \/ \E c \in CuisineTokens : ReleaseDishesOfCuisineType(c)
    \/ \E request \in KitchenRequests, ub \in UBOutcomes : DietaryAdjustment(request, ub)
    \/ \E ub \in UBOutcomes : Destroy(ub)

Spec == Init /\ [][Next]_vars

(***************************************************************************)
(* The kitchen used through newOrder and serveDish only.                   *)
(***************************************************************************)
NextOrderServe ==
    \/ \E d \in DishIds : NewOrder(d)
    \/ \E d \in DishIds : ServeDish(d)

SpecOrderServe == Init /\ [][NextOrderServe]_vars

(***************************************************************************)
(* One Dish object (pointer TheDish) built from any input of a bounded     *)
(* set, on which dietaryAccommodations is called.                          *)
(***************************************************************************)
TheDish == CHOOSE d \in DishIds : \A e \in DishIds : d <= e

ExampleIngredients == <<"Chicken", "Rice", "Beef", "Fish">>

AppetizerInputs ==
    {Appetizer("A", v, 20, 500, "OTHER", "PLATED", 1, FALSE) :
        v \in SeqsUpTo({"Chicken", "Flour", "Rice"}, MaxLen) \cup {ExampleIngredients}}
    \cup {Appetizer("A", <<"Rice">>, 20, 500, "OTHER", "BUFFET", n, FALSE) : n \in 0..MaxLevel}

MainCourseInputs ==
    {MainCourse("M", v, 20, 500, "OTHER", "BAKED", "Chicken",
                <<SideDish("Greens", "SALAD"), SideDish("Roll", "BREAD")>>, FALSE) :
        v \in SeqsUpTo({"Chicken", "Cheese", "Rice"}, MaxLen) \cup {ExampleIngredients}}
    \cup {MainCourse("M", <<"Rice">>, 20, 500, "OTHER", "BAKED", "Chicken",
                     [n \in 1..Len(c) |-> SideDish("Side", c[n])], FALSE) :
            c \in SeqsUpTo({"GRAIN", "BREAD", "STARCHES", "SALAD"}, MaxSides)}

DessertInputs ==
    {Dessert("D", v, 20, 500, "OTHER", "SWEET", 1, TRUE) :
        v \in SeqsUpTo({"Almonds", "Milk", "Sugar"}, MaxLen)}
    \cup {Dessert("D", <<"Sugar">>, 20, 500, "OTHER", "SOUR", n, TRUE) : n \in 0..MaxLevel}

DishInputs == AppetizerInputs \cup MainCourseInputs \cup DessertInputs

Only(flag) ==
    [f \in DOMAIN NoRequest |-> f = flag]

Both(flag1, flag2) ==
    [f \in DOMAIN NoRequest |-> f = flag1 \/ f = flag2]

AllFlags == [f \in DOMAIN NoRequest |-> TRUE]

DishRequests ==
    {NoRequest, AllFlags} \cup {Only(f) : f \in DOMAIN NoRequest}
    \cup {Both("vegetarian", "gluten_free"), Both("vegetarian", "vegan"), Both("nut_free", "vegan")}

InitDish ==
    /\ items_ = [s \in Slots |-> Null]
    /\ item_count_ = 0
    /\ total_prep_time_ = 0
    /\ count_elaborate_ = 0
    /\ dishes \in {[d \in DishIds |-> IF d = TheDish THEN x ELSE Catalog(d)] : x \in DishInputs}
    /\ deleted = [d \in DishIds |-> 0]
    /\ status = "running"
    /\ last = Call("Kitchen", TRUE, 0)

NextDish ==
    \E request \in DishRequests, ub \in UBOutcomes : DietaryAccommodations(TheDish, request, ub)

SpecDish == InitDish /\ [][NextDish]_vars

(***************************************************************************)
(* calculateElaboratePercentage() as a function of the two members it      *)
(* reads: asked of a kitchen whose size is size and whose elaborate        *)
(* counter is count (the counter can exceed the size, see C2).             *)
(***************************************************************************)
CalculateElaboratePercentage(count, size) ==
    /\ status = "running"
    /\ LET k == [Kit EXCEPT !.item_count_ = size, !.count_elaborate_ = count]
       IN  last' = [Call("calculateElaboratePercentage", TRUE, calculateElaboratePercentage(k))
                       EXCEPT !.args = <<count, size>>]
    /\ KitUnchanged
    /\ UNCHANGED <<dishes, deleted, status>>

NextReport ==
    \E count \in 0..MaxHeld, size \in 0..MaxHeld : CalculateElaboratePercentage(count, size)

SpecReport == Init /\ [][NextReport]_vars

(***************************************************************************)
(* The kitchen used through newOrder, serveDish and tallyCuisineTypes.     *)
(***************************************************************************)
TallyTokens == CuisineTokens \cup {"italian"}

TallyCuisineTypes(c) ==
    /\ status = "running"
    /\ last' = [Call("tallyCuisineTypes", TRUE, tallyCuisineTypes(Kit, dishes, c))
                   EXCEPT !.args = <<c>>]
    /\ KitUnchanged
    /\ UNCHANGED <<dishes, deleted, status>>

NextTally ==
    \/ \E d \in DishIds : NewOrder(d)
    \/ \E d \in DishIds : ServeDish(d)
    \/ \E c \in TallyTokens : TallyCuisineTypes(c)

SpecTally == Init /\ [][NextTally]_vars

(***************************************************************************)
(* The file constructor reading records.  The records of the model: for    *)
(* each variant every token of its enums and one token that is none, then  *)
(* records of an unknown dish type and records whose prep_time or price    *)
(* text is no number.                                                      *)
(***************************************************************************)
CuisineTexts == <<"ITALIAN", "MEXICAN", "CHINESE", "INDIAN", "AMERICAN", "FRENCH", "OTHER", "THAI">>
ServingTexts == <<"PLATED", "FAMILY_STYLE", "BUFFET", "TAPAS">>
CookingTexts == <<"GRILLED", "BAKED", "BOILED", "FRIED", "STEAMED", "RAW", "SMOKED">>
FlavorTexts == <<"SWEET", "BITTER", "SOUR", "SALTY", "UMAMI", "SPICY">>
CategoryTexts == <<"GRAIN", "PASTA", "LEGUME", "BREAD", "SALAD", "SOUP", "STARCHES", "VEGETABLE", "FRUIT">>

Pick(texts, n) == texts[((n - 1) % Len(texts)) + 1]

AppetizerRecord(n) ==
    [dish_type |-> "APPETIZER", name |-> "Samosa", ingredients |-> <<"Potato", "Peas">>,
     prep_time |-> <<"4", "5">>, price |-> <<"7", ".", "5">>,
     cuisine_type |-> Pick(CuisineTexts, n),
     attributes |-> <<Pick(ServingTexts, n), <<"3">>, "true">>]

MainCourseRecord(n) ==
    [dish_type |-> "MAINCOURSE", name |-> "Paella",
     ingredients |-> <<"Rice", "Saffron", "Stock", "Peas", "Pepper">>,
     prep_time |-> <<"9", "0">>, price |-> <<"1", "8">>,
     cuisine_type |-> Pick(CuisineTexts, n),
     attributes |-> <<Pick(CookingTexts, n), "Tofu",
                      <<<<"Side", Pick(CategoryTexts, n)>>>>, "false">>]

DessertRecord(n) ==
    [dish_type |-> "DESSERT", name |-> "Flan", ingredients |-> <<"Milk", "Sugar">>,
     prep_time |-> <<"3", "0">>, price |-> <<"6">>,
     cuisine_type |-> Pick(CuisineTexts, n),
     attributes |-> <<Pick(FlavorTexts, n), <<"2">>, "false">>]

UnknownTypes == {"SALAD", "appetizer"}

\* numeric texts that are no number: no digit at all, empty, or a number
\* followed by other characters
BadPrepTimes == {<<"x">>, <<>>, <<"4", "x">>}
BadPrices == {<<"a", "b">>, <<"7", ".", "5", "x">>}

RecordInputs ==
    {AppetizerRecord(n) : n \in 1..Len(CuisineTexts)}
    \cup {MainCourseRecord(n) : n \in 1..Len(CategoryTexts)}
    \cup {DessertRecord(n) : n \in 1..Len(CuisineTexts)}
    \cup {[AppetizerRecord(1) EXCEPT !.dish_type = t] : t \in UnknownTypes}
    \cup {[AppetizerRecord(1) EXCEPT !.dish_type = "SALAD", !.prep_time = <<"x">>]}
    \cup {[AppetizerRecord(1) EXCEPT !.prep_time = t] : t \in BadPrepTimes}
    \cup {[DessertRecord(1) EXCEPT !.price = t] : t \in BadPrices}

\* the pointer the next new returns: an object not yet created
FreeDishes == {d \in DishIds : dishes[d].type = ""}
NextDishId == CHOOSE d \in FreeDishes : \A e \in FreeDishes : d <= e

\* one pass of while (getline(input_file, line)); last.count counts the passes
ReadRecord(rec) ==
    /\ status = "running"
    /\ last.count < MaxRecords
    /\ FreeDishes # {}
    /\ LET p == ParseRecord(rec)
           dish == NextDishId
           h == [dishes EXCEPT ![dish] = p.dish]
       IN  /\ status' = IF p.thrown THEN "thrown" ELSE "running"
           /\ dishes' = IF p.made THEN h ELSE dishes
           /\ IF p.made THEN SetKit(newOrder(Kit, h, dish).k) ELSE KitUnchanged
           /\ last' = [Call("Kitchen(filename)", p.made, last.count + 1)
                          EXCEPT !.args = <<rec>>, !.dish = IF p.made THEN dish ELSE Null]
    /\ UNCHANGED deleted

InitIngest ==
    /\ items_ = [s \in Slots |-> Null]
    /\ item_count_ = 0
    /\ total_prep_time_ = 0
    /\ count_elaborate_ = 0
    /\ dishes = [d \in DishIds |-> BaseDish]
    /\ deleted = [d \in DishIds |-> 0]
    /\ status = "running"
    /\ last = Call("Kitchen(filename)", TRUE, 0)

NextIngest == \E rec \in RecordInputs : ReadRecord(rec)

SpecIngest == InitIngest /\ [][NextIngest]_vars

(***************************************************************************)
(* Recomputation from the held dishes: the live slots of the bag.          *)
(***************************************************************************)
LiveSlots == 0..(item_count_ - 1)

RECURSIVE SumPrepFrom(_)
SumPrepFrom(i) ==
    IF i >= item_count_ THEN 0 ELSE dishes[items_[i]].prep_time + SumPrepFrom(i + 1)

\* sum of prep_time over the held dishes
SumPrepHeld == SumPrepFrom(0)

\* number of held dishes that are elaborate now
CountElaborateHeld == Cardinality({i \in LiveSlots : isElaborate(dishes[items_[i]])})

\* how many times pointer d is held
HeldCount(d) == Cardinality({i \in LiveSlots : items_[i] = d})

Held(d) == HeldCount(d) > 0

\* the members of list v that are not in the fixed set
Without(v, set) == SelectSeq(v, LAMBDA x : x \notin Range(set))

\* substitution stated by position: the 1st member of the non-vegetarian set
\* becomes Beans, the 2nd Mushrooms, later ones are dropped
RECURSIVE Substituted(_, _)
Substituted(v, seen) ==
    IF v = <<>> THEN <<>>
    ELSE IF Head(v) \in Range(nonVegIngredients)
         THEN (IF seen = 0 THEN <<"Beans">> ELSE IF seen = 1 THEN <<"Mushrooms">> ELSE <<>>)
              \o Substituted(Tail(v), seen + 1)
         ELSE <<Head(v)>> \o Substituted(Tail(v), seen)

(***************************************************************************)
(* C1.  Used through newOrder and serveDish only, getPrepTimeSum() is the  *)
(* sum of prep_time over the held dishes and elaborateDishCount() is the   *)
(* number of held dishes with at least 5 ingredients and prep_time >= 60.  *)
(* Checked under SpecOrderServe.                                           *)
(***************************************************************************)
C1_AggregatesMatchHeld ==
    /\ getPrepTimeSum(Kit) = SumPrepHeld
    /\ elaborateDishCount(Kit) = CountElaborateHeld

\* an elaborate dish was served while another elaborate dish stays held
C1_Witness ==
    /\ last.op = "serveDish" /\ last.ok
    /\ item_count_ >= 1
    /\ CountElaborateHeld >= 1
    /\ \E d \in DishIds : ~Held(d) /\ isElaborate(dishes[d])

(***************************************************************************)
(* C2.  In every state reached by order, serve, eviction and               *)
(* dietaryAdjustment, count_elaborate_ is the number of held dishes that   *)
(* are elaborate at that moment and total_prep_time_ is the sum of         *)
(* prep_time over the held dishes.  Checked under Spec; dietaryAdjustment  *)
(* shortens ingredient lists and leaves count_elaborate_ as it was.        *)
(***************************************************************************)
C2_CountersAlwaysRecomputable ==
    status = "running" =>
        /\ count_elaborate_ = CountElaborateHeld
        /\ total_prep_time_ = SumPrepHeld

(***************************************************************************)
(* C3.  After releaseDishesOfCuisineType(token) no held dish has cuisine   *)
(* token, the held dishes of other cuisines are the ones held before, and  *)
(* a token that matches nothing removes nothing.                           *)
(***************************************************************************)
C3_CuisineReleased ==
    [][\A c \in CuisineTokens :
          ReleaseDishesOfCuisineType(c) =>
              \A d \in DishIds :
                  HeldCount(d)' = IF dishes[d].cuisine_type = c THEN 0 ELSE HeldCount(d)]_vars

(***************************************************************************)
(* C4.  After releaseDishesBelowPrepTime(threshold) no held dish has       *)
(* prep_time < threshold and every dish with prep_time >= threshold is     *)
(* held as often as before.                                                *)
(***************************************************************************)
C4_BelowPrepTimeReleased ==
    [][\A t \in Thresholds :
          ReleaseDishesBelowPrepTime(t) =>
              \A d \in DishIds :
                  HeldCount(d)' = IF dishes[d].prep_time < t THEN 0 ELSE HeldCount(d)]_vars

\* one call removed two dishes: the second one had been moved into the slot
\* of the first and was reached through the slot it was moved from
C4_Witness ==
    /\ last.op = "releaseDishesBelowPrepTime"
    /\ last.count >= 2
    /\ item_count_ = 0
    /\ \E s \in Slots : s > 0 /\ items_[s] # Null /\ items_[s] = items_[0]

(***************************************************************************)
(* C5.  getPrepTimeSum() after releaseDishesBelowPrepTime(threshold) is    *)
(* the sum before minus the prep_time of the dishes that left the bag, and *)
(* the returned count is the decrease of the number of held dishes.        *)
(***************************************************************************)
C5_ReleaseRoundTrip ==
    [][\A t \in Thresholds :
          ReleaseDishesBelowPrepTime(t) =>
              /\ getPrepTimeSum(Kit)' = getPrepTimeSum(Kit) - (SumPrepHeld - SumPrepHeld')
              /\ last'.count = item_count_ - item_count_']_vars

\* a call removed dishes, among them one that is not elaborate, and left some
C5_Witness ==
    /\ last.op = "releaseDishesBelowPrepTime"
    /\ last.count >= 1
    /\ total_prep_time_ > 0
    /\ \E d \in DishIds : ~Held(d) /\ ~isElaborate(dishes[d]) /\ dishes[d].prep_time < 50

(***************************************************************************)
(* C6.  A newOrder whose insertion fails and a serveDish on an empty       *)
(* kitchen or on a dish that is not held return false and leave the bag    *)
(* and both aggregates as they were.                                       *)
(***************************************************************************)
C6_FailedCallsChangeNothing ==
    [][\A d \in DishIds :
          /\ (NewOrder(d) /\ ~add(Kit, d).ret) => (~last'.ok /\ KitUnchanged)
          /\ (ServeDish(d) /\ (item_count_ = 0 \/ ~Held(d))) => (~last'.ok /\ KitUnchanged)
          /\ ((NewOrder(d) \/ ServeDish(d)) /\ ~last'.ok) => KitUnchanged]_vars

\* serveDish failed on a dish that is not held while other dishes are
C6_Witness ==
    /\ last.op = "serveDish" /\ ~last.ok
    /\ item_count_ >= 1
    /\ count_elaborate_ >= 1

(***************************************************************************)
(* C7.  Every dish the kitchen accepted is destroyed exactly once: a       *)
(* successful serveDish, also one made by an eviction, destroys the        *)
(* removed instance, and the destructor destroys every dish still held.    *)
(***************************************************************************)
C7_AcceptedDishesDestroyedOnce ==
    [][\A d \in DishIds :
          /\ (HeldCount(d)' < HeldCount(d)) => deleted'[d] = 1
          /\ (status' = "destroyed" /\ status = "running" /\ Held(d)) => deleted'[d] = 1]_vars

(***************************************************************************)
(* C8.  A vegetarian accommodation on an Appetizer or a MainCourse turns   *)
(* the 1st member of the non-vegetarian set into Beans, the 2nd into       *)
(* Mushrooms, deletes the later ones and keeps every other ingredient in   *)
(* place.  Checked under SpecDish for requests in which no other handler   *)
(* of the variant runs after the vegetarian one.                           *)
(***************************************************************************)
VegetarianAlone ==
    /\ last.op = "dietaryAccommodations"
    /\ last.request = Only("vegetarian")
    /\ last.pre.type \in {"APPETIZER", "MAINCOURSE"}

C8_VegetarianSubstitution ==
    VegetarianAlone =>
        /\ status = "running"
        /\ dishes[TheDish].ingredients = Substituted(last.pre.ingredients, 0)

\* the example of the specification: the third member, Fish, is deleted
C8_Witness ==
    /\ VegetarianAlone
    /\ last.pre.ingredients = ExampleIngredients
    /\ dishes[TheDish].ingredients = <<"Beans", "Rice", "Mushrooms">>

(***************************************************************************)
(* C9.  The removal-only handlers (Appetizer gluten_free, Dessert          *)
(* nut_free, Dessert vegan, MainCourse vegan) leave the input list without *)
(* the members of their set, in the original order, for every list, also   *)
(* one whose first element is in the set.                                  *)
(***************************************************************************)
RemovalSet(type, request) ==
    IF type = "APPETIZER" /\ request = Only("gluten_free") THEN gluten_ingredients
    ELSE IF type = "DESSERT" /\ request = Only("nut_free") THEN nuts_ingredients
    ELSE IF type \in {"DESSERT", "MAINCOURSE"} /\ request = Only("vegan") THEN diary_egg_ingredients
    ELSE <<>>

C9_RemovalOnly ==
    (last.op = "dietaryAccommodations" /\ RemovalSet(last.pre.type, last.request) # <<>>) =>
        /\ status = "running"
        /\ dishes[TheDish].ingredients =
               Without(last.pre.ingredients, RemovalSet(last.pre.type, last.request))

(***************************************************************************)
(* C10.  gluten_free on a MainCourse sets gluten_free, leaves exactly the  *)
(* side dishes whose category is not GRAIN, PASTA, BREAD or STARCHES, in   *)
(* order, also when the first one is such, and leaves the ingredients.     *)
(***************************************************************************)
C10_GlutenFreeSideDishes ==
    (/\ last.op = "dietaryAccommodations"
     /\ last.request = Only("gluten_free")
     /\ last.pre.type = "MAINCOURSE") =>
        /\ status = "running"
        /\ dishes[TheDish].gluten_free
        /\ dishes[TheDish].side_dishes =
               SelectSeq(last.pre.side_dishes,
                         LAMBDA sd : sd.category \notin Range(gluten_side_dishes_category))
        /\ dishes[TheDish].ingredients = last.pre.ingredients

(***************************************************************************)
(* C11.  A call that handles low_sodium on an Appetizer leaves             *)
(* spiciness_level = max(0, old - 2), one that handles low_sugar on a      *)
(* Dessert leaves sweetness_level = max(0, old - 3).  The level is never   *)
(* negative, every reduction of a positive level lowers it, and a level of *)
(* 0 stays 0: repeated reductions reach 0 and stay there.                  *)
(***************************************************************************)
Max(a, b) == IF a >= b THEN a ELSE b

Reduced(old, new, step) ==
    /\ new = Max(0, old - step)
    /\ new >= 0
    /\ old > 0 => new < old
    /\ old = 0 => new = 0

C11_LevelsClampAtZero ==
    (last.op = "dietaryAccommodations" /\ status = "running") =>
        /\ (last.pre.type = "APPETIZER" /\ last.request.low_sodium) =>
               Reduced(last.pre.spiciness_level, dishes[TheDish].spiciness_level, 2)
        /\ (last.pre.type = "DESSERT" /\ last.request.low_sugar) =>
               Reduced(last.pre.sweetness_level, dishes[TheDish].sweetness_level, 3)
        /\ dishes[TheDish].spiciness_level >= 0
        /\ dishes[TheDish].sweetness_level >= 0

\* a level of 1 was reduced: old - 2 is negative and the level is 0
C11_Witness ==
    /\ last.op = "dietaryAccommodations" /\ status = "running"
    /\ last.pre.type = "APPETIZER" /\ last.request.low_sodium
    /\ last.pre.spiciness_level = 1
    /\ dishes[TheDish].spiciness_level = 0

(***************************************************************************)
(* C12.  calculateElaboratePercentage() is 0 when the size or the          *)
(* elaborate counter is 0; otherwise it is the percentage rounded to two   *)
(* decimal places: in hundredths, the integer nearest to                   *)
(* count * 10000 / size, a half rounded up.  7 of 13 give 53.85.           *)
(* Checked under SpecReport.                                               *)
(***************************************************************************)
C12_PercentageRounded ==
    last.op = "calculateElaboratePercentage" =>
        LET count == last.args[1]
            size == last.args[2]
            r == last.count
        IN  /\ (size = 0 \/ count = 0) => r = 0
            /\ (size > 0 /\ count > 0) =>
                   /\ 2 * r * size <= 2 * count * 10000 + size
                   /\ 2 * r * size > 2 * count * 10000 - size
            /\ (count = 7 /\ size = 13) => r = 5385

\* the percentage of 7 elaborate dishes among 13 was asked for
C12_Witness ==
    /\ last.op = "calculateElaboratePercentage"
    /\ last.args = <<7, 13>>
    /\ last.count = 5385

(***************************************************************************)
(* C13.  calculateAvgPrepTime() is 0 for an empty kitchen and otherwise    *)
(* the integer nearest to (sum of prep_time over the held dishes) / size,  *)
(* an exact half rounded up; the same holds with getPrepTimeSum() as the   *)
(* sum.                                                                    *)
(***************************************************************************)
Nearest(r, sum, size) ==
    /\ 2 * r * size <= 2 * sum + size
    /\ 2 * r * size > 2 * sum - size

C13_AvgPrepTimeRounded ==
    status = "running" =>
        LET r == calculateAvgPrepTime(Kit, dishes)
        IN  /\ item_count_ = 0 => r = 0
            /\ item_count_ > 0 =>
                   /\ Nearest(r, SumPrepHeld, item_count_)
                   /\ Nearest(r, getPrepTimeSum(Kit), getCurrentSize(Kit))

\* two dishes are held whose average is an exact half
C13_Witness ==
    /\ status = "running"
    /\ item_count_ = 2
    /\ SumPrepHeld % 2 = 1

(***************************************************************************)
(* C14.  tallyCuisineTypes(token) returns the number of held dishes whose  *)
(* cuisine is token, compared case-sensitively; a token that is no cuisine *)
(* name gives 0; the call changes nothing in the kitchen.  Checked under   *)
(* SpecTally.                                                              *)
(***************************************************************************)
CuisineNames == {"ITALIAN", "MEXICAN", "CHINESE", "INDIAN", "AMERICAN", "FRENCH", "OTHER"}

HeldOfCuisine(c) == Cardinality({i \in LiveSlots : dishes[items_[i]].cuisine_type = c})

C14_TallyCountsHeld ==
    [][\A c \in TallyTokens : TallyCuisineTypes(c) =>
          /\ last'.count = HeldOfCuisine(c)
          /\ c \notin CuisineNames => last'.count = 0
          /\ UNCHANGED <<items_, item_count_, total_prep_time_, count_elaborate_, dishes>>]_vars

\* a dish of the cuisine asked for is held and counted, next to a stale slot
C14_Witness ==
    /\ last.op = "tallyCuisineTypes"
    /\ last.count = 1
    /\ item_count_ = 1
    /\ \E s \in Slots : s >= item_count_ /\ items_[s] # Null

(***************************************************************************)
(* C15.  Whenever the kitchen holds no dish, after any operations          *)
(* (dietaryAdjustment included), calculateAvgPrepTime(),                   *)
(* calculateElaboratePercentage(), elaborateDishCount() and                *)
(* getPrepTimeSum() return 0.                                              *)
(***************************************************************************)
C15_EmptyKitchenReportsZero ==
    (status = "running" /\ item_count_ = 0) =>
        /\ calculateAvgPrepTime(Kit, dishes) = 0
        /\ calculateElaboratePercentage(Kit) = 0
        /\ elaborateDishCount(Kit) = 0
        /\ getPrepTimeSum(Kit) = 0

\* the kitchen was emptied while its elaborate counter is still positive
C15_Witness ==
    /\ status = "running"
    /\ item_count_ = 0
    /\ count_elaborate_ > 0
    /\ last.op \in {"serveDish", "releaseDishesBelowPrepTime", "releaseDishesOfCuisineType"}

(***************************************************************************)
(* Ingestion claims, checked under SpecIngest.                             *)
(***************************************************************************)
DishTypes == {"APPETIZER", "MAINCOURSE", "DESSERT"}

KitchenSame ==
    UNCHANGED <<items_, item_count_, total_prep_time_, count_elaborate_, dishes>>

\* an optional sign and one or more digits, nothing else
WellFormedInt(text) ==
    LET t == IF text # <<>> /\ Head(text) \in {"-", "+"} THEN Tail(text) ELSE text
    IN  t # <<>> /\ \A n \in 1..Len(t) : IsDigit(t[n])

\* an optional sign and digits around at most one point, one digit at least
WellFormedDecimal(text) ==
    LET t == IF text # <<>> /\ Head(text) \in {"-", "+"} THEN Tail(text) ELSE text
    IN  /\ \A n \in 1..Len(t) : IsDigit(t[n]) \/ t[n] = "."
        /\ Cardinality({n \in 1..Len(t) : t[n] = "."}) <= 1
        /\ \E n \in 1..Len(t) : IsDigit(t[n])

(***************************************************************************)
(* C16 as stated.  A record whose dish_type is none of APPETIZER,          *)
(* MAINCOURSE, DESSERT produces no dish, leaves the held set, the prep     *)
(* total and the elaborate counter unchanged, and ingestion goes on to the *)
(* next record, whatever its other fields contain.                         *)
(***************************************************************************)
C16_UnknownTypeSkippedAlways ==
    [][\A rec \in RecordInputs :
          (ReadRecord(rec) /\ rec.dish_type \notin DishTypes) =>
              /\ KitchenSame
              /\ ~last'.ok
              /\ status' = "running"]_vars

(***************************************************************************)
(* C16 amended.  A record whose dish_type is none of APPETIZER,            *)
(* MAINCOURSE, DESSERT and whose prep_time and price texts are accepted by *)
(* std::stoi and std::stod produces no dish, leaves the held set, the prep *)
(* total and the elaborate counter unchanged, and ingestion goes on to the *)
(* next record.                                                            *)
(***************************************************************************)
C16_UnknownTypeSkipped ==
    [][\A rec \in RecordInputs :
          (/\ ReadRecord(rec)
           /\ rec.dish_type \notin DishTypes
           /\ stoi(rec.prep_time).ok
           /\ stod(rec.price).ok) =>
              /\ KitchenSame
              /\ ~last'.ok
              /\ status' = "running"]_vars

\* a record of unknown type was read after a dish, which is still all the
\* kitchen holds
C16_Witness ==
    /\ last.op = "Kitchen(filename)"
    /\ last.count = 2
    /\ last.args[1].dish_type \notin DishTypes
    /\ status = "running"
    /\ item_count_ = 1

(***************************************************************************)
(* C17.  A record whose prep_time or price text is not a well-formed       *)
(* number ends in a parse failure: no dish is created or ordered, and the  *)
(* value is not replaced by a default or by a partially parsed number.     *)
(***************************************************************************)
C17_MalformedNumberFails ==
    [][\A rec \in RecordInputs :
          (ReadRecord(rec) /\ (~WellFormedInt(rec.prep_time) \/ ~WellFormedDecimal(rec.price))) =>
              /\ status' = "thrown"
              /\ ~last'.ok
              /\ KitchenSame]_vars

(***************************************************************************)
(* C18.  A record of a known dish type that no parse failure ends is       *)
(* turned into a dish and ordered whatever its enum tokens are: a          *)
(* recognized token decodes to its own value, any other to OTHER           *)
(* (cuisine), PLATED (serving style), GRILLED (cooking method), SWEET      *)
(* (flavor profile), GRAIN (side-dish category).                           *)
(***************************************************************************)
Decoded(token, names, default) == IF token \in names THEN token ELSE default

ServingStyleNames == {"PLATED", "FAMILY_STYLE", "BUFFET"}
CookingMethodNames == {"GRILLED", "BAKED", "BOILED", "FRIED", "STEAMED", "RAW"}
FlavorProfileNames == {"SWEET", "BITTER", "SOUR", "SALTY", "UMAMI"}
CategoryNames == {"GRAIN", "PASTA", "LEGUME", "BREAD", "SALAD", "SOUP", "STARCHES", "VEGETABLE"}

C18_EnumDefaults ==
    [][\A rec \in RecordInputs :
          (ReadRecord(rec) /\ rec.dish_type \in DishTypes /\ status' = "running") =>
              /\ last'.ok
              /\ last'.dish # Null
              /\ item_count_ < DEFAULT_CAPACITY =>
                     /\ item_count_' = item_count_ + 1
                     /\ items_'[item_count_] = last'.dish
              /\ LET dish == dishes'[last'.dish]
                 IN  /\ dish.type = rec.dish_type
                     /\ dish.cuisine_type = Decoded(rec.cuisine_type, CuisineNames, "OTHER")
                     /\ rec.dish_type = "APPETIZER" =>
                            dish.serving_style = Decoded(rec.attributes[1], ServingStyleNames, "PLATED")
                     /\ rec.dish_type = "MAINCOURSE" =>
                            /\ dish.cooking_method = Decoded(rec.attributes[1], CookingMethodNames, "GRILLED")
                            /\ Len(dish.side_dishes) = Len(rec.attributes[3])
                            /\ \A n \in 1..Len(dish.side_dishes) :
                                   dish.side_dishes[n].category =
                                       Decoded(rec.attributes[3][n][2], CategoryNames, "GRAIN")
                     /\ rec.dish_type = "DESSERT" =>
                            dish.flavor_profile = Decoded(rec.attributes[1], FlavorProfileNames, "SWEET")]_vars

\* a line with an unknown cuisine and an unknown serving style was read: its
\* dish is held as OTHER and PLATED
C18_Witness ==
    /\ last.op = "Kitchen(filename)" /\ last.count >= 1 /\ last.ok
    /\ last.args[1].cuisine_type = "THAI"
    /\ last.args[1].attributes[1] = "TAPAS"
    /\ dishes[last.dish].cuisine_type = "OTHER"
    /\ dishes[last.dish].serving_style = "PLATED"
    /\ \E s \in LiveSlots : items_[s] = last.dish

(***************************************************************************)
(* C19.  Dessert::display writes exactly one flavor label, the name of the *)
(* dessert's own flavor_profile: Sweet, Bitter, Sour, Salty or Umami.      *)
(* Checked under SpecDish on the dessert drawn.                            *)
(***************************************************************************)
FlavorLabel(flavor_profile) ==
    IF flavor_profile = "SWEET" THEN "Sweet"
    ELSE IF flavor_profile = "BITTER" THEN "Bitter"
    ELSE IF flavor_profile = "SOUR" THEN "Sour"
    ELSE IF flavor_profile = "SALTY" THEN "Salty"
    ELSE "Umami"

C19_OneOwnFlavorLabel ==
    dishes[TheDish].type = "DESSERT" =>
        Dessert_display(dishes[TheDish]) = <<FlavorLabel(dishes[TheDish].flavor_profile)>>

(***************************************************************************)
(* C20.  newOrder on a dish that is already held returns false and leaves  *)
(* the number of held dishes, the prep total and the elaborate counter     *)
(* unchanged.  Checked under SpecOrderServe.                               *)
(***************************************************************************)
C20_HeldDishRejected ==
    [][\A d \in DishIds :
          (NewOrder(d) /\ HeldCount(d) >= 1) =>
              /\ ~last'.ok
              /\ UNCHANGED <<item_count_, total_prep_time_, count_elaborate_>>]_vars

(***************************************************************************)
(* C21.  Two flags of one request that both apply run in the listed order, *)
(* the second handler on the list the first one left: vegetarian then      *)
(* gluten_free on an Appetizer, vegetarian then vegan on a MainCourse,     *)
(* nut_free then vegan on a Dessert.                                       *)
(***************************************************************************)
Composed(type, request, v) ==
    IF type = "APPETIZER" /\ request = Both("vegetarian", "gluten_free")
    THEN Without(Substituted(v, 0), gluten_ingredients)
    ELSE IF type = "MAINCOURSE" /\ request = Both("vegetarian", "vegan")
    THEN Without(Substituted(v, 0), diary_egg_ingredients)
    ELSE IF type = "DESSERT" /\ request = Both("nut_free", "vegan")
    THEN Without(Without(v, nuts_ingredients), diary_egg_ingredients)
    ELSE v

TwoHandlers(type, request) ==
    \/ type = "APPETIZER" /\ request = Both("vegetarian", "gluten_free")
    \/ type = "MAINCOURSE" /\ request = Both("vegetarian", "vegan")
    \/ type = "DESSERT" /\ request = Both("nut_free", "vegan")

C21_HandlersCompose ==
    (last.op = "dietaryAccommodations" /\ TwoHandlers(last.pre.type, last.request)) =>
        /\ status = "running"
        /\ dishes[TheDish].ingredients =
               Composed(last.pre.type, last.request, last.pre.ingredients)

(***************************************************************************)
(* C22.  A request all of whose set flags are not listed for the variant   *)
(* of the dish (Appetizer: vegan, nut_free, low_sugar; MainCourse:         *)
(* nut_free, low_sodium, low_sugar; Dessert: vegetarian, gluten_free,      *)
(* low_sodium), the request with no flag included, leaves the dish as it   *)
(* was in every field.                                                     *)
(***************************************************************************)
ListedFlags(type) ==
    IF type = "APPETIZER" THEN {"vegetarian", "low_sodium", "gluten_free"}
    ELSE IF type = "MAINCOURSE" THEN {"vegetarian", "vegan", "gluten_free"}
    ELSE {"nut_free", "low_sugar", "vegan"}

OnlyUnlisted(type, request) ==
    \A f \in DOMAIN request : request[f] => f \notin ListedFlags(type)

C22_UnlistedFlagsNoEffect ==
    (last.op = "dietaryAccommodations" /\ OnlyUnlisted(last.pre.type, last.request)) =>
        /\ status = "running"
        /\ dishes[TheDish] = last.pre

\* nut_free and vegan were asked of an appetizer that vegetarian and
\* gluten_free would both change
C22_Witness ==
    /\ last.op = "dietaryAccommodations"
    /\ last.request = Both("nut_free", "vegan")
    /\ last.pre.type = "APPETIZER"
    /\ "Flour" \in Range(last.pre.ingredients)
    /\ "Chicken" \in Range(last.pre.ingredients)
    /\ dishes[TheDish] = last.pre

(***************************************************************************)
(* C23.  No dietary accommodation uses an index outside                    *)
(* [0, current length) of the ingredient list or of the side-dish list,    *)
(* also when the element removed is the one at index 0.                    *)
(***************************************************************************)
\* an index outside the list is used: the run in which such a use faults
\* does fault
UsesIndexOutside(dish, request) ==
    LET fault == CHOOSE ub \in UBOutcomes : ub = "fault"
    IN  dietaryAccommodations(dish, request, fault).fault

C23_IndicesInRange ==
    [][\A request \in DishRequests, ub \in UBOutcomes :
          DietaryAccommodations(TheDish, request, ub) =>
              ~UsesIndexOutside(dishes[TheDish], request)]_vars

(***************************************************************************)
(* C24.  In every state reached through newOrder, serveDish, the two       *)
(* evictions and dietaryAdjustment, 0 <= elaborateDishCount() <= number of *)
(* held dishes and calculateElaboratePercentage() is within [0, 100].      *)
(***************************************************************************)
C24_ElaborateCountWithinSize ==
    status = "running" =>
        /\ 0 <= elaborateDishCount(Kit)
        /\ elaborateDishCount(Kit) <= getCurrentSize(Kit)
        /\ 0 <= calculateElaboratePercentage(Kit)
        /\ calculateElaboratePercentage(Kit) <= 100 * 100

(***************************************************************************)
(* C25.  dietaryAdjustment(request) applies the accommodation once to      *)
(* every held dish and to nothing else: the bag, its order and size, the   *)
(* prep total and the elaborate counter stay, a dish not held stays as it  *)
(* is, and name, prep_time, price and cuisine of every dish stay.          *)
(***************************************************************************)
\* the accommodation carried out to its end
Accommodated(dish, request) ==
    LET benign == CHOOSE ub \in UBOutcomes : ub = "nomatch"
    IN  dietaryAccommodations(dish, request, benign).dish

C25_AdjustmentFrame ==
    [][\A request \in KitchenRequests, ub \in UBOutcomes :
          DietaryAdjustment(request, ub) =>
              /\ status' = "running"
              /\ UNCHANGED <<items_, item_count_, total_prep_time_, count_elaborate_>>
              /\ \A d \in DishIds :
                     /\ dishes'[d] = IF HeldCount(d) >= 1
                                     THEN Accommodated(dishes[d], request)
                                     ELSE dishes[d]
                     /\ dishes'[d].name = dishes[d].name
                     /\ dishes'[d].prep_time = dishes[d].prep_time
                     /\ dishes'[d].price = dishes[d].price
                     /\ dishes'[d].cuisine_type = dishes[d].cuisine_type]_vars

(***************************************************************************)
(* C26.  releaseDishesBelowPrepTime reads, and passes to serveDish, only   *)
(* slots whose index is below the size the bag has at that moment.         *)
(***************************************************************************)
C26_ReadsLiveSlotsOnly ==
    [][\A t \in Thresholds :
          ReleaseDishesBelowPrepTime(t) =>
              LET reads == ReleaseBelowReads(Kit, dishes, t, 0, getCurrentSize(Kit))
              IN  \A n \in 1..Len(reads) : reads[n].slot < reads[n].size]_vars

====
